---- MODULE Spec2Model ----
(***************************************************************************)
(* Model of the Translate page of office-suit (src/src/App.tsx): the       *)
(* session state of the component, the debounced trigger, the calls to the *)
(* translation endpoint and the recent-translations list with its          *)
(* persistence.                                                            *)
(*                                                                         *)
(* Texts are sequences of one-character strings, so that toLowerCase(),    *)
(* trim() and the template string that builds the de-duplication key are   *)
(* modelled by what they do to the characters.                             *)
(***************************************************************************)
EXTENDS Integers, Sequences, FiniteSets, TLC

VARIABLES
    sourceText,          \* useState sourceText
    translatedText,      \* useState translatedText
    sourceLang,          \* useState sourceLang
    targetLang,          \* useState targetLang
    isTranslating,       \* useState isTranslating
    recentTranslations,  \* useState recentTranslations
    apiKey,              \* useState apiKey
    showApiKeyInput,     \* useState showApiKeyInput
    error,               \* useState error
    timer,               \* the pending debounce timeout: <<>> or <<captured values>>
    inflight,            \* the fetches issued and not yet settled
    calls,               \* number of fetches issued so far
    now,                 \* the reading Date.now() gives next
    urlSl,               \* the sl parameter of the page URL ("" when absent)
    urlTl,               \* the tl parameter of the page URL ("" when absent)
    storedKey,           \* localStorage["gemini-api-key"] ("" when absent)
    storedHistory,       \* localStorage["translation-history"] (<<>> when absent)
    lastEvent,           \* history variable: the handler that ran last
    prevTranslations,    \* history variable: recentTranslations before the last update of it
    newTranslation,      \* history variable: the record the last successful call created
    inserted,            \* history variable: the records created since the list was last empty
    lastSettled          \* history variable: the id of the fetch that settled last (0: none)

vars == <<sourceText, translatedText, sourceLang, targetLang, isTranslating,
          recentTranslations, apiKey, showApiKeyInput, error, timer, inflight,
          calls, now, urlSl, urlTl, storedKey, storedHistory, lastEvent,
          prevTranslations, newTranslation, inserted, lastSettled>>

(***************************************************************************)
(* Bounds of the model.                                                    *)
(***************************************************************************)
MaxClock == 3        \* records created in a run of SpecHistory
MaxStoredClock == 1  \* records created in a run of SpecStored
MaxPad == 11         \* padding records of a stored list
NumFill == 13        \* records of the fill universe of SpecFill
MaxCalls == 2        \* fetches issued in a run of Spec

(***************************************************************************)
(* Program constants.                                                      *)
(***************************************************************************)
DupSlice == 10       \* .slice(0, 10) of the duplicate branch
NewSlice == 9        \* prev.slice(0, 9) of the non-duplicate branch
FilterCap == 10      \* .filter((_, index) => index < 10)
MaxSourceLen == 5000 \* text.length <= 5000

(***************************************************************************)
(* Strings.                                                                *)
(***************************************************************************)
Min(a, b) == IF a < b THEN a ELSE b

\* String.prototype.toLowerCase on one character of the model's alphabet.
LowerChar(ch) == IF ch = "A" THEN "a" ELSE IF ch = "B" THEN "b" ELSE ch

\* String.prototype.toLowerCase.
toLowerCase(s) == [i \in 1..Len(s) |-> LowerChar(s[i])]

\* String.prototype.trim: strips the leading and trailing white space.
RECURSIVE trimStart(_)
trimStart(s) == IF s # <<>> /\ Head(s) = " " THEN trimStart(Tail(s)) ELSE s

RECURSIVE trimEnd(_)
trimEnd(s) ==
    IF s # <<>> /\ s[Len(s)] = " " THEN trimEnd(SubSeq(s, 1, Len(s) - 1)) ELSE s

trim(s) == trimEnd(trimStart(s))

\* A truthiness test that every string passes.
TruthyAlways(s) == TRUE

\* JavaScript truthiness of a string: !s is true for the empty string only.
Truthy(s) == s # <<>>

\* Array.prototype.slice(0, n).
slice0(s, n) == SubSeq(s, 1, Min(n, Len(s)))

\* The characters of the language codes the model uses (codes of `languages`).
CodeChars(c) ==
    CASE c = "auto" -> <<"a", "u", "t", "o">>
      [] c = "en"   -> <<"e", "n">>
      [] c = "fr"   -> <<"f", "r">>
      [] c = "ja"   -> <<"j", "a">>
      [] OTHER      -> <<"?">>

(***************************************************************************)
(* The recent-translations list.                                           *)
(***************************************************************************)
Translation(source, target, from, to, timestamp) ==
    [source |-> source, target |-> target, from |-> from, to |-> to,
     timestamp |-> timestamp]

\* The predicate of prev.some(...) and of prev.filter(...): same texts up to
\* case, same languages.
sameTranslation(translation, new) ==
    /\ toLowerCase(translation.source) = toLowerCase(new.source)
    /\ toLowerCase(translation.target) = toLowerCase(new.target)
    /\ translation.from = new.from
    /\ translation.to = new.to

\* `${source}-${target}-${from}-${to}`
keyOf(translation) ==
    translation.source \o <<"-">> \o translation.target \o <<"-">>
        \o CodeChars(translation.from) \o <<"-">> \o CodeChars(translation.to)

\* .filter(translation => { if (set.has(key)) return false; set.add(key); return true })
RECURSIVE filterBySet(_, _)
filterBySet(s, set) ==
    IF s = <<>> THEN <<>>
    ELSE IF keyOf(Head(s)) \in set THEN filterBySet(Tail(s), set)
    ELSE <<Head(s)>> \o filterBySet(Tail(s), set \cup {keyOf(Head(s))})

\* tempList without any truncation.
tempListNoCap(prev, new) ==
    LET isDuplicate == \E i \in 1..Len(prev) : sameTranslation(prev[i], new)
    IN  IF isDuplicate
        THEN <<new>> \o SelectSeq(prev, LAMBDA t : ~sameTranslation(t, new))
        ELSE <<new>> \o prev

\* tempList whose duplicate branch removes the records with exactly the same texts.
tempListExact(prev, new) ==
    LET isDuplicate == \E i \in 1..Len(prev) : sameTranslation(prev[i], new)
        temp == IF isDuplicate
                THEN slice0(<<new>> \o SelectSeq(prev,
                                LAMBDA t : ~(/\ t.source = new.source
                                             /\ t.target = new.target
                                             /\ t.from = new.from
                                             /\ t.to = new.to)), DupSlice)
                ELSE <<new>> \o slice0(prev, NewSlice)
    IN  slice0(temp, FilterCap)

\* tempList whose non-duplicate branch adds the new record at the end.
tempListAppend(prev, new) ==
    LET isDuplicate == \E i \in 1..Len(prev) : sameTranslation(prev[i], new)
        temp == IF isDuplicate
                THEN slice0(<<new>> \o SelectSeq(prev,
                                LAMBDA t : ~sameTranslation(t, new)), DupSlice)
                ELSE slice0(prev, NewSlice) \o <<new>>
    IN  slice0(temp, FilterCap)

\* tempList whose non-duplicate branch keeps the last nine records of prev.
tempListKeepOldest(prev, new) ==
    LET isDuplicate == \E i \in 1..Len(prev) : sameTranslation(prev[i], new)
        temp == IF isDuplicate
                THEN slice0(<<new>> \o SelectSeq(prev,
                                LAMBDA t : ~sameTranslation(t, new)), DupSlice)
                ELSE <<new>> \o SubSeq(prev, Len(prev) - Min(NewSlice, Len(prev)) + 1,
                                       Len(prev))
    IN  slice0(temp, FilterCap)

\* The list before the final pass: `temp`, cut by .filter((_, index) => index < 10).
tempList(prev, new) ==
    LET isDuplicate == \E i \in 1..Len(prev) : sameTranslation(prev[i], new)
        temp == IF isDuplicate
                THEN slice0(<<new>> \o SelectSeq(prev,
                                LAMBDA t : ~sameTranslation(t, new)), DupSlice)
                ELSE <<new>> \o slice0(prev, NewSlice)
    IN  slice0(temp, FilterCap)

\* The updater given to setRecentTranslations.
recordTranslation(prev, new) == filterBySet(tempList(prev, new), {})

(***************************************************************************)
(* Inputs of the model.                                                    *)
(***************************************************************************)
\* What the user types into the source field.
SourceInputs == {<<>>, <<" ">>, <<"a">>}
\* What the endpoint answers, after .trim().
Results == {<<>>, <<"b">>}
\* Options of the two language selects.
SourceLangs == {"auto", "en"}
TargetLangs == {"ja"}
\* What the user types into the key field.
KeyInputs == {<<>>, <<"k">>}
\* The ways a call fails: fetch rejects, the status is not ok, the body lacks
\* candidates / content / parts[0], or reading the body throws a TypeError.
Failures == {"http", "invalid"}

MissingKeyMsg == "Please enter your Gemini API key first"
KeyRequiredMsg == "Gemini API key is required"

\* error.message of what translateWithGemini rejects with.
FailureMessage(kind) ==
    CASE kind = "network"   -> "Failed to fetch"
      [] kind = "http"      -> "Gemini API error: 500 - Unknown error"
      [] kind = "invalid"   -> "Invalid response from Gemini API"
      [] kind = "typeError" -> "Cannot read properties of undefined"
      [] OTHER              -> "Translation failed. Please try again."

(***************************************************************************)
(* The session.                                                            *)
(***************************************************************************)
\* The values a render's handleTranslate closes over (its dependency list).
Captured(text, from, to, key) ==
    [text |-> text, from |-> from, to |-> to, key |-> key]

NoTranslation == Translation(<<>>, <<>>, "", "", 0)

\* The record handleTranslate builds from a result.
MakeTranslation(c, result, timestamp) ==
    Translation(trim(c.text), result,
                IF c.from = "auto" THEN "en" ELSE c.from, c.to, timestamp)

\* The debounce effect without its cleanup (no clearTimeout).
DebounceNoClear(text, from, to, key) ==
    timer' = IF <<text, from, to, key>> # <<sourceText, sourceLang, targetLang, apiKey>>
             THEN timer \o <<Captured(text, from, to, key)>>
             ELSE timer

\* The debounce effect: a change of sourceText, sourceLang, targetLang or apiKey
\* clears the pending timeout and sets a new one for the new render's values.
Debounce(text, from, to, key) ==
    timer' = IF <<text, from, to, key>> # <<sourceText, sourceLang, targetLang, apiKey>>
             THEN <<Captured(text, from, to, key)>>
             ELSE timer

\* The URL effect with an updateUrlParams that never deletes the sl parameter.
UrlEffectKeepSl(from, to) ==
    IF <<from, to>> # <<sourceLang, targetLang>>
    THEN /\ urlSl' = IF from # "" /\ from # "auto" THEN from ELSE urlSl
         /\ urlTl' = IF to # "" THEN to ELSE urlTl
    ELSE UNCHANGED <<urlSl, urlTl>>

\* The URL effect: updateUrlParams runs when sourceLang or targetLang changed.
UrlEffect(from, to) ==
    IF <<from, to>> # <<sourceLang, targetLang>>
    THEN /\ urlSl' = IF from # "" /\ from # "auto" THEN from ELSE ""
         /\ urlTl' = IF to # "" THEN to ELSE urlTl
    ELSE UNCHANGED <<urlSl, urlTl>>

\* The API key effect: a changed, non-empty apiKey is written to localStorage.
KeyEffect(key) ==
    storedKey' = IF key # apiKey /\ Truthy(key) THEN key ELSE storedKey

\* JSON.stringify of a list of records: one entry per record, its fields in the
\* order the object literal of handleTranslate gives them.
JSONstringify(list) ==
    [i \in 1..Len(list) |->
        <<list[i].source, list[i].target, list[i].from, list[i].to,
          list[i].timestamp>>]

\* JSON.parse of a stored text throws on a text that is not JSON.
ParseThrows(text) == \E i \in 1..Len(text) : Len(text[i]) # 5

JSONparse(text) ==
    [i \in 1..Len(text) |->
        Translation(text[i][1], text[i][2], text[i][3], text[i][4], text[i][5])]

historyGhosts == <<prevTranslations, newTranslation, inserted>>
historyVars == <<recentTranslations, storedHistory, now>>
urlVars == <<urlSl, urlTl>>

\* The state after the component is mounted and its startup effect has run, with
\* no URL parameters; the stored key is `key`, the stored history is `saved`.
Mounted(key, saved) ==
    /\ sourceText = <<>>
    /\ translatedText = <<>>
    /\ sourceLang = "en"
    /\ targetLang = "ja"
    /\ isTranslating = FALSE
    /\ recentTranslations = saved
    /\ apiKey = key
    /\ showApiKeyInput = ~Truthy(key)
    /\ error = ""
    /\ timer = <<Captured(<<>>, "en", "ja", key)>>
    /\ inflight = {}
    /\ calls = 0
    /\ now = 1
    /\ urlSl = "en"
    /\ urlTl = "ja"
    /\ storedKey = key
    /\ storedHistory = JSONstringify(saved)
    /\ lastEvent = "mount"
    /\ prevTranslations = <<>>
    /\ newTranslation = NoTranslation
    /\ inserted = <<>>
    /\ lastSettled = 0

Init == \E key \in KeyInputs : Mounted(key, <<>>)

\* translateWithGemini up to its fetch, as handleTranslate sees it: without a key
\* it throws before the fetch, and the catch and finally blocks run; with one the
\* fetch is issued and the call is in flight.
translateWithGemini(c) ==
    IF ~Truthy(c.key)
    THEN /\ error' = KeyRequiredMsg
         /\ translatedText' = <<>>
         /\ isTranslating' = FALSE
         /\ UNCHANGED <<showApiKeyInput, inflight, calls>>
    ELSE /\ isTranslating' = TRUE
         /\ error' = ""
         /\ inflight' = inflight \cup {[id |-> calls + 1, c |-> c]}
         /\ calls' = calls + 1
         /\ UNCHANGED <<translatedText, showApiKeyInput>>

\* handleTranslate, up to the await.
handleTranslate(c) ==
    IF ~Truthy(trim(c.text))
    THEN UNCHANGED <<translatedText, isTranslating, error, showApiKeyInput,
                     inflight, calls>>
    ELSE IF ~Truthy(c.key)
    THEN /\ error' = MissingKeyMsg
         /\ showApiKeyInput' = TRUE
         /\ UNCHANGED <<translatedText, isTranslating, inflight, calls>>
    ELSE translateWithGemini(c)

\* The debounce timeout fires.
TimerFire ==
    /\ timer # <<>>
    /\ (Truthy(trim(timer[1].text)) /\ Truthy(timer[1].key)) => calls < MaxCalls
    /\ timer' = <<>>
    /\ lastEvent' = "fire"
    /\ UNCHANGED lastSettled
    /\ IF Truthy(trim(timer[1].text)) /\ Truthy(timer[1].key)
       THEN handleTranslate(timer[1])
       ELSE /\ translatedText' = <<>>
            /\ UNCHANGED <<isTranslating, error, showApiKeyInput, inflight, calls>>
    /\ UNCHANGED <<sourceText, sourceLang, targetLang, apiKey, storedKey>>
    /\ UNCHANGED <<historyVars, historyGhosts, urlVars>>

\* The try block with a guard that drops the result of a call whose text is no
\* longer the source text.
ApplySuccessIfCurrent(c, result) ==
    /\ IF c.text = sourceText
       THEN /\ translatedText' = result
            /\ newTranslation' = MakeTranslation(c, result, now)
            /\ prevTranslations' = recentTranslations
            /\ recentTranslations' = recordTranslation(recentTranslations, newTranslation')
            /\ storedHistory' = JSONstringify(recentTranslations')
            /\ now' = now + 1
       ELSE UNCHANGED <<translatedText, newTranslation, prevTranslations,
                        recentTranslations, storedHistory, now>>
    /\ isTranslating' = FALSE
    /\ lastEvent' = "ok"

\* The try block of handleTranslate after the await, and its finally: the result
\* is shown and recorded, the list is saved by the history effect.
ApplySuccess(c, result) ==
    /\ translatedText' = result
    /\ newTranslation' = MakeTranslation(c, result, now)
    /\ prevTranslations' = recentTranslations
    /\ recentTranslations' = recordTranslation(recentTranslations, newTranslation')
    /\ storedHistory' = JSONstringify(recentTranslations')
    /\ now' = now + 1
    /\ isTranslating' = FALSE
    /\ lastEvent' = "ok"

\* The catch block without setTranslatedText("").
ApplyFailureKeepText(kind) ==
    /\ error' = FailureMessage(kind)
    /\ translatedText' = translatedText
    /\ isTranslating' = FALSE
    /\ lastEvent' = "fail"

\* The catch block without the finally block.
ApplyFailureNoFinally(kind) ==
    /\ error' = FailureMessage(kind)
    /\ translatedText' = <<>>
    /\ isTranslating' = isTranslating
    /\ lastEvent' = "fail"

\* The catch block of handleTranslate, and its finally.
ApplyFailure(kind) ==
    /\ error' = FailureMessage(kind)
    /\ translatedText' = <<>>
    /\ isTranslating' = FALSE
    /\ lastEvent' = "fail"

\* A call in flight resolves with a translation.
ResponseOk ==
    \E call \in inflight, result \in Results :
        /\ ApplySuccess(call.c, result)
        /\ inflight' = inflight \ {call}
        /\ lastSettled' = call.id
        /\ UNCHANGED <<sourceText, sourceLang, targetLang, apiKey, showApiKeyInput,
                       error, timer, calls, storedKey, inserted, urlVars>>

\* A call in flight fails and a retry is scheduled.
ResponseFailRetry ==
    \E call \in inflight, kind \in Failures :
        /\ ApplyFailure(kind)
        /\ inflight' = inflight \ {call}
        /\ lastSettled' = call.id
        /\ timer' = <<Captured(sourceText, sourceLang, targetLang, apiKey)>>
        /\ UNCHANGED <<sourceText, sourceLang, targetLang, apiKey, showApiKeyInput,
                       calls, storedKey, urlVars>>
        /\ UNCHANGED <<historyVars, historyGhosts>>

\* A call in flight fails.
ResponseFail ==
    \E call \in inflight, kind \in Failures :
        /\ ApplyFailure(kind)
        /\ inflight' = inflight \ {call}
        /\ lastSettled' = call.id
        /\ UNCHANGED <<sourceText, sourceLang, targetLang, apiKey, showApiKeyInput,
                       timer, calls, storedKey, urlVars>>
        /\ UNCHANGED <<historyVars, historyGhosts>>

\* handleSourceTextChange that cuts an over-long text to the limit.
handleSourceTextChangeTruncate(text) ==
    /\ sourceText' = slice0(text, MaxSourceLen)
    /\ error' = ""
    /\ Debounce(sourceText', sourceLang, targetLang, apiKey)
    /\ lastEvent' = IF Len(text) <= MaxSourceLen THEN "user" ELSE "rejected"
    /\ UNCHANGED lastSettled
    /\ UNCHANGED <<translatedText, sourceLang, targetLang, isTranslating, apiKey,
                   showApiKeyInput, inflight, calls, storedKey>>
    /\ UNCHANGED <<historyVars, historyGhosts, urlVars>>

\* handleSourceTextChange for the text the textarea reports; lastEvent tells a
\* text that was taken from one that was not.
handleSourceTextChange(text) ==
    /\ IF Len(text) <= MaxSourceLen
       THEN /\ sourceText' = text
            /\ error' = ""
       ELSE UNCHANGED <<sourceText, error>>
    /\ Debounce(sourceText', sourceLang, targetLang, apiKey)
    /\ lastEvent' = IF Len(text) <= MaxSourceLen THEN "user" ELSE "rejected"
    /\ UNCHANGED lastSettled
    /\ UNCHANGED <<translatedText, sourceLang, targetLang, isTranslating, apiKey,
                   showApiKeyInput, inflight, calls, storedKey>>
    /\ UNCHANGED <<historyVars, historyGhosts, urlVars>>

\* The textarea's onChange.
HandleSourceTextChange == \E text \in SourceInputs : handleSourceTextChange(text)

\* handleSourceLangChange: the source select's onChange.
HandleSourceLangChange ==
    \E code \in SourceLangs :
        /\ sourceLang' = code
        /\ UrlEffect(code, targetLang)
        /\ Debounce(sourceText, code, targetLang, apiKey)
        /\ lastEvent' = "user"
        /\ UNCHANGED lastSettled
        /\ UNCHANGED <<sourceText, translatedText, targetLang, isTranslating, apiKey,
                       showApiKeyInput, error, inflight, calls, storedKey>>
        /\ UNCHANGED <<historyVars, historyGhosts>>

\* handleTargetLangChange: the target select's onChange.
HandleTargetLangChange ==
    \E code \in TargetLangs :
        /\ targetLang' = code
        /\ UrlEffect(sourceLang, code)
        /\ Debounce(sourceText, sourceLang, code, apiKey)
        /\ lastEvent' = "user"
        /\ UNCHANGED lastSettled
        /\ UNCHANGED <<sourceText, translatedText, sourceLang, isTranslating, apiKey,
                       showApiKeyInput, error, inflight, calls, storedKey>>
        /\ UNCHANGED <<historyVars, historyGhosts>>

\* swapLanguages without the test of translatedText.
SwapLanguagesAnyText ==
    /\ IF sourceLang # "auto"
       THEN /\ sourceLang' = targetLang
            /\ targetLang' = sourceLang
            /\ sourceText' = translatedText
            /\ translatedText' = sourceText
       ELSE UNCHANGED <<sourceLang, targetLang, sourceText, translatedText>>
    /\ UrlEffect(sourceLang', targetLang')
    /\ Debounce(sourceText', sourceLang', targetLang', apiKey)
    /\ lastEvent' = "user"
    /\ UNCHANGED lastSettled
    /\ UNCHANGED <<isTranslating, apiKey, showApiKeyInput, error, inflight, calls,
                   storedKey>>
    /\ UNCHANGED <<historyVars, historyGhosts>>

\* swapLanguages: the swap button's onClick.
SwapLanguages ==
    /\ IF sourceLang # "auto" /\ Truthy(translatedText)
       THEN /\ sourceLang' = targetLang
            /\ targetLang' = sourceLang
            /\ sourceText' = translatedText
            /\ translatedText' = sourceText
       ELSE UNCHANGED <<sourceLang, targetLang, sourceText, translatedText>>
    /\ UrlEffect(sourceLang', targetLang')
    /\ Debounce(sourceText', sourceLang', targetLang', apiKey)
    /\ lastEvent' = "user"
    /\ UNCHANGED lastSettled
    /\ UNCHANGED <<isTranslating, apiKey, showApiKeyInput, error, inflight, calls,
                   storedKey>>
    /\ UNCHANGED <<historyVars, historyGhosts>>

\* clearText: the "Clear all" button's onClick.
ClearText ==
    /\ sourceText' = <<>>
    /\ translatedText' = <<>>
    /\ error' = ""
    /\ Debounce(<<>>, sourceLang, targetLang, apiKey)
    /\ lastEvent' = "user"
    /\ UNCHANGED lastSettled
    /\ UNCHANGED <<sourceLang, targetLang, isTranslating, apiKey, showApiKeyInput,
                   inflight, calls, storedKey>>
    /\ UNCHANGED <<historyVars, historyGhosts, urlVars>>

\* clearHistory without the history effect that saves the list.
ClearHistoryNoSave ==
    /\ Len(recentTranslations) > 0
    /\ recentTranslations' = <<>>
    /\ storedHistory' = storedHistory
    /\ prevTranslations' = <<>>
    /\ newTranslation' = NoTranslation
    /\ inserted' = <<>>
    /\ lastEvent' = "user"
    /\ UNCHANGED lastSettled
    /\ UNCHANGED <<sourceText, translatedText, sourceLang, targetLang, isTranslating,
                   apiKey, showApiKeyInput, error, timer, inflight, calls, now,
                   storedKey>>
    /\ UNCHANGED urlVars

\* clearHistory: the "Clear History" button, rendered while the list is not empty;
\* the history effect saves the empty list.
ClearHistory ==
    /\ Len(recentTranslations) > 0
    /\ recentTranslations' = <<>>
    /\ storedHistory' = JSONstringify(<<>>)
    /\ prevTranslations' = <<>>
    /\ newTranslation' = NoTranslation
    /\ inserted' = <<>>
    /\ lastEvent' = "user"
    /\ UNCHANGED lastSettled
    /\ UNCHANGED <<sourceText, translatedText, sourceLang, targetLang, isTranslating,
                   apiKey, showApiKeyInput, error, timer, inflight, calls, now,
                   storedKey>>
    /\ UNCHANGED urlVars

\* handleRecentTranslation: the "Use" button of a record of the list.
HandleRecentTranslation ==
    \E i \in 1..Len(recentTranslations) :
        /\ sourceText' = recentTranslations[i].source
        /\ sourceLang' = recentTranslations[i].from
        /\ targetLang' = recentTranslations[i].to
        /\ UrlEffect(sourceLang', targetLang')
        /\ Debounce(sourceText', sourceLang', targetLang', apiKey)
        /\ lastEvent' = "user"
        /\ UNCHANGED lastSettled
        /\ UNCHANGED <<translatedText, isTranslating, apiKey, showApiKeyInput, error,
                       inflight, calls, storedKey>>
        /\ UNCHANGED <<historyVars, historyGhosts>>

\* The key field's onChange, rendered while showApiKeyInput; the API key effect
\* saves a non-empty key.
ApiKeyChange ==
    \E key \in KeyInputs :
        /\ showApiKeyInput
        /\ apiKey' = key
        /\ KeyEffect(key)
        /\ Debounce(sourceText, sourceLang, targetLang, key)
        /\ lastEvent' = "user"
        /\ UNCHANGED lastSettled
        /\ UNCHANGED <<sourceText, translatedText, sourceLang, targetLang,
                       isTranslating, showApiKeyInput, error, inflight, calls>>
        /\ UNCHANGED <<historyVars, historyGhosts, urlVars>>

\* saveApiKey: the Save button, enabled while apiKey.trim() is not empty.
SaveApiKey ==
    /\ showApiKeyInput
    /\ Truthy(trim(apiKey))
    /\ showApiKeyInput' = FALSE
    /\ error' = ""
    /\ lastEvent' = "user"
    /\ UNCHANGED lastSettled
    /\ UNCHANGED <<sourceText, translatedText, sourceLang, targetLang, isTranslating,
                   apiKey, timer, inflight, calls, storedKey>>
    /\ UNCHANGED <<historyVars, historyGhosts, urlVars>>

\* The settings button's onClick.
ToggleSettings ==
    /\ showApiKeyInput' = ~showApiKeyInput
    /\ lastEvent' = "user"
    /\ UNCHANGED lastSettled
    /\ UNCHANGED <<sourceText, translatedText, sourceLang, targetLang, isTranslating,
                   apiKey, error, timer, inflight, calls, storedKey>>
    /\ UNCHANGED <<historyVars, historyGhosts, urlVars>>

Next ==
    \/ TimerFire
    \/ ResponseOk
    \/ ResponseFail
    \/ HandleSourceTextChange
    \/ HandleSourceLangChange
    \/ HandleTargetLangChange
    \/ SwapLanguages
    \/ ClearText
    \/ ClearHistory
    \/ HandleRecentTranslation
    \/ ApiKeyChange
    \/ SaveApiKey
    \/ ToggleSettings

Spec == Init /\ [][Next]_vars

(***************************************************************************)
(* The list alone: successful translations and clearHistory, from an empty *)
(* list (SpecHistory) and from any stored list (SpecStored).               *)
(***************************************************************************)
HistTexts == {<<"a">>, <<"A">>, <<"a", "-", "a">>}
HistFrom == {"auto", "en"}
HistTo == {"ja", "fr"}

\* A call issued for (text, from, to) resolves with `result`: handleTranslate from
\* the await on. At most `bound` records are created in a run.
TranslationSucceeds(bound) ==
    \E text \in HistTexts, from \in HistFrom, to \in HistTo, result \in HistTexts :
        /\ now <= bound
        /\ ApplySuccess(Captured(text, from, to, apiKey), result)
        /\ inserted' = Append(inserted, newTranslation')
        /\ UNCHANGED <<sourceText, sourceLang, targetLang, apiKey, showApiKeyInput,
                       error, timer, inflight, calls, storedKey, urlVars,
                       lastSettled>>

InitHistory == Mounted(<<"k">>, <<>>)

NextHistory ==
    \/ TranslationSucceeds(MaxClock)
    \/ ClearHistory

SpecHistory == InitHistory /\ [][NextHistory]_vars

\* Stored lists: any two (or fewer) records of StoredRecords, followed by padding
\* records that differ from each other and from every record a run creates.
StoredRecords ==
    {Translation(source, <<"a">>, "en", "ja", 0) : source \in HistTexts}

PadRecord(i) == Translation([j \in 1..i |-> "b"], <<"b">>, "en", "ja", 0)

StoredLists ==
    {head \o [i \in 1..n |-> PadRecord(i)] :
        head \in {<<>>} \cup {<<r>> : r \in StoredRecords}
                        \cup {<<r, q>> : r \in StoredRecords, q \in StoredRecords},
        n \in 0..MaxPad}

\* The startup effect read a stored list, whatever it holds.
InitStored == \E saved \in StoredLists : Mounted(<<"k">>, saved)

NextStored ==
    \/ TranslationSucceeds(MaxStoredClock)
    \/ ClearHistory

SpecStored == InitStored /\ [][NextStored]_vars

(***************************************************************************)
(* Filling the list: records of a fixed universe are translated in rising  *)
(* order (any of them may be skipped), the oldest record of the list may   *)
(* be translated again, and the list may be cleared (SpecFill).            *)
(***************************************************************************)
\* The universe: record i has a source of i letters, except for two records
\* whose texts hold a '-' and one that differs from record 1 by case only.
FillText(i) ==
    IF i = 2 THEN <<"a">>
    ELSE IF i = 4 THEN <<"a", "-", "a">>
    ELSE IF i = 6 THEN <<"B">>
    ELSE [j \in 1..i |-> "b"]

FillResult(i) ==
    IF i = 2 THEN <<"a", "-", "a">>
    ELSE IF i = 4 THEN <<"a">>
    ELSE <<"b">>

FillIndex(r) ==
    CHOOSE i \in 1..NumFill : FillText(i) = r.source /\ FillResult(i) = r.target

\* The call for record k of the universe resolves; k is beyond every record
\* created since the list was last empty.
FillNext ==
    \E k \in 1..NumFill :
        /\ now <= NumFill
        /\ \A j \in 1..Len(inserted) : FillIndex(inserted[j]) < k
        /\ ApplySuccess(Captured(FillText(k), "en", "ja", apiKey), FillResult(k))
        /\ inserted' = Append(inserted, newTranslation')
        /\ UNCHANGED <<sourceText, sourceLang, targetLang, apiKey, showApiKeyInput,
                       error, timer, inflight, calls, storedKey, urlVars,
                       lastSettled>>

\* The oldest record of the list is translated again, with the same result; this
\* happens once between two clearings of the list.
FillAgain ==
    /\ now <= NumFill
    /\ Len(recentTranslations) > 1
    /\ \A i, j \in 1..Len(inserted) :
           i # j => <<inserted[i].source, inserted[i].target>>
                        # <<inserted[j].source, inserted[j].target>>
    /\ LET last == recentTranslations[Len(recentTranslations)] IN
       ApplySuccess(Captured(last.source, last.from, last.to, apiKey), last.target)
    /\ inserted' = Append(inserted, newTranslation')
    /\ UNCHANGED <<sourceText, sourceLang, targetLang, apiKey, showApiKeyInput,
                   error, timer, inflight, calls, storedKey, urlVars,
                       lastSettled>>

NextFill ==
    \/ FillNext
    \/ FillAgain
    \/ ClearHistory

SpecFill == InitHistory /\ [][NextFill]_vars

(***************************************************************************)
(* Properties of the list.                                                 *)
(***************************************************************************)
\* The identity tuple of a record: lower-cased texts and the two codes.
identity(t) == <<toLowerCase(t.source), toLowerCase(t.target), t.from, t.to>>

UniqueIdentities(list) ==
    \A i, j \in 1..Len(list) : i # j => identity(list[i]) # identity(list[j])

UniqueKeys(list) ==
    \A i, j \in 1..Len(list) : i # j => keyOf(list[i]) # keyOf(list[j])

Reverse(list) == [i \in 1..Len(list) |-> list[Len(list) + 1 - i]]

\* Keeps the first record of each identity, in order.
RECURSIVE DedupByIdentity(_, _)
DedupByIdentity(list, seen) ==
    IF list = <<>> THEN <<>>
    ELSE IF identity(Head(list)) \in seen THEN DedupByIdentity(Tail(list), seen)
    ELSE <<Head(list)>> \o DedupByIdentity(Tail(list), seen \cup {identity(Head(list))})

\* The last step recorded a translation and the list held a record of its identity.
Promoted ==
    /\ lastEvent = "ok"
    /\ \E i \in 1..Len(prevTranslations) :
           identity(prevTranslations[i]) = identity(newTranslation)

\* C1: from an empty history, whatever translations succeed and whenever the
\* history is cleared, the list never holds more than 10 records.
C1_BoundInvariant == Len(recentTranslations) <= 10

\* C1 witness: a translation of a new identity was recorded into a full list.
C1_Witness ==
    /\ lastEvent = "ok"
    /\ Len(prevTranslations) = 10
    /\ ~Promoted
    /\ Len(recentTranslations) = 10

\* C2: from an empty history, no two records of the list ever share an identity
\* tuple (lower-cased source, lower-cased target, fromCode, toCode).
C2_UniquenessInvariant == UniqueIdentities(recentTranslations)

\* C2 witness: a translation was recorded whose identity the list already held
\* with texts of another case, next to a record of another identity.
C2_Witness ==
    /\ Promoted
    /\ \E i \in 1..Len(prevTranslations) :
           /\ identity(prevTranslations[i]) = identity(newTranslation)
           /\ prevTranslations[i].source # newTranslation.source
    /\ Len(recentTranslations) >= 2

\* C3: whatever list was there before (a stored one included), after a
\* translation is recorded the list has at most 10 records and no two of them
\* share an identity tuple.
C3_InvariantForAnyPrevious ==
    lastEvent = "ok" =>
        /\ Len(recentTranslations) <= 10
        /\ UniqueIdentities(recentTranslations)

\* C4: when the list already holds a record of the new record's identity, the
\* result is the new record at index 0 followed by all records of other
\* identities in their previous order (so exactly one record of that identity).
C4_PromotionOnDuplicate ==
    Promoted =>
        recentTranslations =
            <<newTranslation>> \o SelectSeq(prevTranslations,
                LAMBDA t : identity(t) # identity(newTranslation))

\* C5: after every successful translation, for every previous list, the record
\* created for it is at index 0 of the list.
C5_NewestFirst ==
    lastEvent = "ok" =>
        /\ Len(recentTranslations) >= 1
        /\ recentTranslations[1] = newTranslation

\* C5 witness: a translation was recorded whose identity a list of more than 10
\* records held below its first record.
C5_Witness ==
    /\ lastEvent = "ok"
    /\ Len(prevTranslations) > 10
    /\ identity(prevTranslations[1]) # identity(newTranslation)
    /\ Promoted

\* Eleven records were created since the list was last empty, of pairwise
\* distinct identity tuples.
ElevenDistinct == Len(inserted) = 11 /\ UniqueIdentities(inserted)

C7_FinalPassByIdentity ==
    lastEvent = "ok" =>
        recentTranslations =
            DedupByIdentity(tempList(prevTranslations, newTranslation), {})

(***************************************************************************)
(* Properties of the session.                                              *)
(***************************************************************************)
\* C8: no call to the endpoint is issued while apiKey is empty: every step that
\* issues a call is taken with a non-empty apiKey, which the call carries.
C8_NoCallWithoutKey ==
    [][calls' # calls =>
          /\ apiKey # <<>>
          /\ \A call \in inflight' \ inflight : call.c.key = apiKey]_vars

\* C8 witness: the timer fired for a non-empty text with an empty apiKey, and no
\* call has been issued.
C8_Witness ==
    /\ lastEvent = "fire"
    /\ apiKey = <<>>
    /\ trim(sourceText) # <<>>
    /\ calls = 0

\* C9: when the timer fires with an empty apiKey and a non-empty source text,
\* error becomes the missing-key message and showApiKeyInput becomes true, and no
\* call is issued.
C9_ConfigErrorOnFire ==
    [][(/\ lastEvent' = "fire"
        /\ timer # <<>>
        /\ timer[1].key = <<>>
        /\ trim(timer[1].text) # <<>>) =>
          /\ error' = MissingKeyMsg
          /\ showApiKeyInput' = TRUE
          /\ calls' = calls]_vars

\* C10: a call that fails leaves a non-empty error, an empty translatedText,
\* isTranslating false and the list (and its stored copy) as they were, and the
\* session still takes the next input.
C10_FailedOutcome ==
    /\ [][lastEvent' = "fail" =>
            /\ error' # ""
            /\ translatedText' = <<>>
            /\ isTranslating' = FALSE
            /\ recentTranslations' = recentTranslations
            /\ storedHistory' = storedHistory]_vars
    /\ [](lastEvent = "fail" => ENABLED HandleSourceTextChange)

\* C10 witness: a call failed on a malformed response after another call had
\* succeeded and put a record into the list.
C10_Witness ==
    /\ lastEvent = "fail"
    /\ error = FailureMessage("invalid")
    /\ Len(recentTranslations) > 0

(***************************************************************************)
(* The page: it is loaded with URL parameters and stored data, the         *)
(* component is mounted, the session runs, the page is reloaded (SpecPage).*)
(***************************************************************************)
MaxPageCalls == 1    \* fetches issued in a run of SpecPage

\* The codes of the languages catalog.
languages ==
    {"auto", "en", "es", "fr", "de", "it", "pt", "ru", "ja", "ko", "zh", "zh-TW",
     "ar", "hi", "th", "vi", "nl", "sv", "da", "no"}

\* import.meta.env.VITE_GEMINI_KEY || "": the build has no key.
EnvKey == <<>>

\* params.get(name) || fallback.
ParamOr(param, fallback) == IF param # "" THEN param ELSE fallback

\* getUrlParams.
getUrlParams == [sl |-> ParamOr(urlSl, "en"), tl |-> ParamOr(urlTl, "ja")]

\* The language a session starts with: the useState initialiser reads the
\* parameter of the URL (or the fallback), and the startup effect sets the value
\* getUrlParams gave when it is a code of the catalog.
startLang(param, urlParam, fallback) ==
    LET initial == ParamOr(param, fallback)
    IN  IF urlParam # "" /\ urlParam \in languages THEN urlParam ELSE initial

\* updateUrlParams, as the URL effect calls it.
updateUrlParams(from, to) ==
    /\ urlSl' = IF from # "" /\ from # "auto" THEN from ELSE ""
    /\ urlTl' = IF to # "" THEN to ELSE urlTl

\* The values of the URL parameters and of the stored data the page is loaded with.
UrlSlInputs == {"", "fr", "auto", "xx"}
UrlTlInputs == {"", "xx"}
PageLists == {<<>>, <<Translation(<<"a">>, <<"b">>, "en", "ja", 0)>>}
CorruptText == <<<<"{">>>>
StoredTexts == {JSONstringify(list) : list \in PageLists} \cup {CorruptText}

\* The storage of a first visit (no key, no history) and of a later visit (a key
\* and any stored text).
Storages ==
    {<<<<>>, <<>>>>} \cup {<<<<"k">>, text>> : text \in StoredTexts}

\* The page is loaded and the component is not mounted yet: only the URL and the
\* storage hold data.
Loaded(sl, tl, key, text) ==
    /\ urlSl = sl
    /\ urlTl = tl
    /\ storedKey = key
    /\ storedHistory = text
    /\ lastEvent = "load"
    /\ sourceText = <<>>
    /\ translatedText = <<>>
    /\ sourceLang = ""
    /\ targetLang = ""
    /\ isTranslating = FALSE
    /\ recentTranslations = <<>>
    /\ apiKey = <<>>
    /\ showApiKeyInput = FALSE
    /\ error = ""
    /\ timer = <<>>
    /\ inflight = {}
    /\ prevTranslations = <<>>
    /\ newTranslation = NoTranslation
    /\ inserted = <<>>
    /\ lastSettled = 0

\* The component is mounted: the useState initialisers, the startup effect, and
\* the URL, key, history and debounce effects of the first renders.
Mount ==
    /\ lastEvent = "load"
    /\ LET savedApiKey == storedKey
           savedTranslations == storedHistory
       IN  /\ sourceLang' = startLang(urlSl, getUrlParams.sl, "en")
           /\ targetLang' = startLang(urlTl, getUrlParams.tl, "ja")
           /\ apiKey' = savedApiKey
           /\ showApiKeyInput' = ~Truthy(savedApiKey)
           /\ recentTranslations' =
                  IF savedTranslations # <<>> /\ ~ParseThrows(savedTranslations)
                  THEN JSONparse(savedTranslations)
                  ELSE <<>>
           /\ storedKey' = IF Truthy(savedApiKey) THEN savedApiKey
                           ELSE IF Truthy(EnvKey) THEN EnvKey ELSE storedKey
    /\ storedHistory' = JSONstringify(recentTranslations')
    /\ updateUrlParams(sourceLang', targetLang')
    /\ timer' = <<Captured(<<>>, sourceLang', targetLang', apiKey')>>
    /\ lastEvent' = "mount"
    /\ UNCHANGED <<sourceText, translatedText, isTranslating, error, inflight, calls,
                   now, historyGhosts, lastSettled>>

\* The page is reloaded: the session is gone, the URL and the storage stay.
Reload ==
    /\ lastEvent # "load"
    /\ lastEvent' = "load"
    /\ sourceText' = <<>>
    /\ translatedText' = <<>>
    /\ sourceLang' = ""
    /\ targetLang' = ""
    /\ isTranslating' = FALSE
    /\ recentTranslations' = <<>>
    /\ apiKey' = <<>>
    /\ showApiKeyInput' = FALSE
    /\ error' = ""
    /\ timer' = <<>>
    /\ inflight' = {}
    /\ prevTranslations' = <<>>
    /\ newTranslation' = NoTranslation
    /\ inserted' = <<>>
    /\ lastSettled' = 0
    /\ UNCHANGED <<urlSl, urlTl, storedKey, storedHistory, calls, now>>

InitPage ==
    /\ \E sl \in UrlSlInputs, tl \in UrlTlInputs, stored \in Storages :
           Loaded(sl, tl, stored[1], stored[2])
    /\ calls = 0
    /\ now = 1

\* A step of the mounted component; at most MaxPageCalls fetches are issued.
Session ==
    /\ lastEvent # "load"
    /\ Next
    /\ calls' <= MaxPageCalls

NextPage ==
    \/ Mount
    \/ Reload
    \/ Session

SpecPage == InitPage /\ [][NextPage]_vars

(***************************************************************************)
(* The length limit: the session with texts at and beyond the limit of the *)
(* source text (SpecLimit).                                                *)
(***************************************************************************)
MaxLimitCalls == 1   \* fetches issued in a run of SpecLimit

\* A text of n letters.
Letters(n) == [i \in 1..n |-> "a"]

\* A text of exactly the limit and one a character longer.
LongInputs == {Letters(MaxSourceLen), Letters(MaxSourceLen + 1)}

\* The textarea's onChange for a long text (typed, pasted or set by a script).
HandleLongTextChange == \E text \in LongInputs : handleSourceTextChange(text)

\* A call in flight resolves with a translation that is longer than the limit of
\* the source text.
ResponseOkLong ==
    \E call \in inflight :
        /\ ApplySuccess(call.c, Letters(MaxSourceLen + 1))
        /\ inflight' = inflight \ {call}
        /\ lastSettled' = call.id
        /\ UNCHANGED <<sourceText, sourceLang, targetLang, apiKey, showApiKeyInput,
                       error, timer, calls, storedKey, inserted, urlVars>>

\* The debounce timeout fires; at most MaxLimitCalls fetches are issued.
LimitTimerFire ==
    /\ TimerFire
    /\ calls' <= MaxLimitCalls

\* The session of a user who edits the text and swaps.
NextLimit ==
    \/ LimitTimerFire
    \/ ResponseOk
    \/ ResponseFail
    \/ HandleSourceTextChange
    \/ HandleLongTextChange
    \/ SwapLanguages

SpecLimit == Init /\ [][NextLimit]_vars

\* The session of a user who types short texts, swaps, clears and re-uses
\* records, with translations of any length (SpecLong).
NextLong ==
    \/ LimitTimerFire
    \/ ResponseOk
    \/ ResponseOkLong
    \/ ResponseFail
    \/ HandleSourceTextChange
    \/ SwapLanguages
    \/ ClearText
    \/ HandleRecentTranslation

SpecLong == Init /\ [][NextLong]_vars

(***************************************************************************)
(* The session under fair scheduling: a pending timeout fires and a fetch  *)
(* in flight settles (SpecLive).                                           *)
(***************************************************************************)
MaxLiveCalls == 1    \* fetches issued in a run of SpecLive

\* The debounce timeout fires; at most MaxLiveCalls fetches are issued.
LiveTimerFire ==
    /\ TimerFire
    /\ calls' <= MaxLiveCalls

\* A call in flight settles.
Response == ResponseOk \/ ResponseFail

NextLive ==
    \/ LiveTimerFire
    \/ ResponseOk
    \/ ResponseFail
    \/ HandleSourceTextChange
    \/ HandleSourceLangChange
    \/ HandleTargetLangChange
    \/ SwapLanguages
    \/ ClearText
    \/ ClearHistory
    \/ HandleRecentTranslation
    \/ ApiKeyChange
    \/ SaveApiKey
    \/ ToggleSettings

\* setTimeout runs the callback of a timeout that is not cleared; the fetch of a
\* call resolves or rejects.
SpecLive ==
    /\ Init
    /\ [][NextLive]_vars
    /\ WF_vars(LiveTimerFire)
    /\ WF_vars(Response)

(***************************************************************************)
(* Properties of the startup, of the URL and of the persisted data.        *)
(***************************************************************************)
\* C11: mounting gives sourceLang the sl parameter of the URL when it is a code
\* of the catalog and "en" otherwise, and targetLang the tl parameter when it is
\* a code of the catalog and "ja" otherwise.
C11_CatalogOrDefault ==
    [][lastEvent = "load" =>
          /\ sourceLang' = (IF urlSl \in languages THEN urlSl ELSE "en")
          /\ targetLang' = (IF urlTl \in languages THEN urlTl ELSE "ja")]_vars

\* C12: in every state of the mounted component the URL mirrors the languages:
\* tl is targetLang, and sl is sourceLang unless sourceLang is "auto", in which
\* case the URL has no sl parameter.
C12_UrlMirror ==
    lastEvent # "load" =>
        /\ urlTl = targetLang
        /\ urlSl = (IF sourceLang = "auto" THEN "" ELSE sourceLang)

\* C12 witness: the page was loaded with ?sl=fr, a translation from fr to ja was
\* shown and the languages were swapped: the URL reads sl=ja, tl=fr.
C12_Witness ==
    /\ lastEvent = "user"
    /\ sourceLang = "ja"
    /\ targetLang = "fr"
    /\ sourceText = <<"b">>
    /\ translatedText = <<"a">>
    /\ urlSl = "ja"
    /\ urlTl = "fr"

(***************************************************************************)
(* Properties of the handlers of the session.                              *)
(***************************************************************************)
\* C13: a swap exchanges sourceLang with targetLang and sourceText with
\* translatedText in one step when sourceLang is not "auto" and translatedText
\* is not empty, and leaves the four as they are otherwise; in both cases the
\* list, apiKey and error stay as they are.
C13_SwapExchanges ==
    [][SwapLanguages =>
          /\ IF sourceLang # "auto" /\ translatedText # <<>>
             THEN /\ sourceLang' = targetLang
                  /\ targetLang' = sourceLang
                  /\ sourceText' = translatedText
                  /\ translatedText' = sourceText
             ELSE /\ sourceLang' = sourceLang
                  /\ targetLang' = targetLang
                  /\ sourceText' = sourceText
                  /\ translatedText' = translatedText
          /\ recentTranslations' = recentTranslations
          /\ apiKey' = apiKey
          /\ error' = error]_vars

\* C13 witness: a translation "a" -> "b" from en to ja was shown and swapped.
C13_Witness ==
    /\ lastEvent = "user"
    /\ sourceLang = "ja"
    /\ targetLang = "en"
    /\ sourceText = <<"b">>
    /\ translatedText = <<"a">>
    /\ Len(recentTranslations) = 1

\* C14: a change of the source text to a text of more than 5000 characters
\* leaves sourceText, translatedText and error as they are (the text is not cut);
\* a change to a text of at most 5000 characters makes it the sourceText and
\* empties error.
C14_LengthLimit ==
    [][\A text \in SourceInputs \cup LongInputs :
          handleSourceTextChange(text) =>
              IF Len(text) > 5000
              THEN /\ sourceText' = sourceText
                   /\ translatedText' = translatedText
                   /\ error' = error
              ELSE /\ sourceText' = text
                   /\ error' = ""]_vars

\* C14 witness: a text of 5001 characters was entered while a text and an error
\* were shown, and both stayed.
C14_Witness ==
    /\ lastEvent = "rejected"
    /\ sourceText = <<"a">>
    /\ error # ""

\* C15: a step that edits the key (apiKey changes) leaves the persisted key as
\* it is: the key is written to the storage only by the confirmation (Save).
C15_PersistOnlyOnSave ==
    [][apiKey' # apiKey => storedKey' = storedKey]_vars

\* C16: in every state of the mounted component the persisted history is the
\* serialised list and parses back to the list (same records, same order); and
\* mounting on a stored list takes exactly that list and leaves the persisted
\* history as it was.
C16_HistoryPersisted ==
    /\ [](lastEvent # "load" =>
            /\ storedHistory = JSONstringify(recentTranslations)
            /\ ~ParseThrows(storedHistory)
            /\ JSONparse(storedHistory) = recentTranslations)
    /\ [][(lastEvent = "load" /\ ~ParseThrows(storedHistory)) =>
            /\ recentTranslations' = JSONparse(storedHistory)
            /\ storedHistory' = storedHistory]_vars

\* C16 witness: a record was created in a session, the page was reloaded and the
\* new session starts with that record, which is still the persisted history.
C16_Witness ==
    /\ lastEvent = "mount"
    /\ Len(recentTranslations) = 1
    /\ recentTranslations[1].timestamp = 1
    /\ storedHistory =
           <<<<recentTranslations[1].source, <<"b">>, recentTranslations[1].from,
               recentTranslations[1].to, 1>>>>

(***************************************************************************)
(* Properties of the debounced trigger and of the calls.                   *)
(***************************************************************************)
\* C17: at most one timer is pending, and it is the one armed for the current
\* sourceText, sourceLang, targetLang and apiKey; every change of one of the four
\* replaces the pending timer by a new one; a call is issued only by a pending
\* timer that fires, one call per fire, and it carries the source text and the
\* languages of the state in which the timer fires.
C17_Debounce ==
    /\ [](/\ Len(timer) <= 1
          /\ timer # <<>> =>
                timer[1] = Captured(sourceText, sourceLang, targetLang, apiKey))
    /\ [][<<sourceText', sourceLang', targetLang', apiKey'>>
              # <<sourceText, sourceLang, targetLang, apiKey>> =>
            timer' = <<Captured(sourceText', sourceLang', targetLang', apiKey')>>]_vars
    /\ [][calls' # calls =>
            /\ timer # <<>>
            /\ timer' = <<>>
            /\ calls' = calls + 1
            /\ Cardinality(inflight' \ inflight) = 1
            /\ \A call \in inflight' \ inflight :
                   /\ call.c.text = sourceText
                   /\ call.c.from = sourceLang
                   /\ call.c.to = targetLang]_vars

\* C17 witness: "a" was typed and then the source language was set to "auto",
\* which re-armed the timer; it fired and issued the one call, for "auto".
C17_Witness ==
    /\ lastEvent = "fire"
    /\ calls = 1
    /\ sourceLang = "auto"
    /\ inflight = {[id |-> 1, c |-> Captured(<<"a">>, "auto", "ja", <<"k">>)]}

\* C18: a call leaves the calls in flight only by its own response, never by an
\* edit or by another call; and a response that arrives is applied whatever the
\* session holds by then, with other calls in flight or settled before it:
\* translatedText is its result and the record built from the values the call
\* was issued with is at the head of the list.
C18_ResponsesAlwaysApplied ==
    /\ [][\A call \in inflight \ inflight' :
            /\ lastEvent' \in {"ok", "fail"}
            /\ lastSettled' = call.id
            /\ inflight' = inflight \ {call}]_vars
    /\ [][lastEvent' = "ok" =>
            \E call \in inflight \ inflight' :
                /\ translatedText' = newTranslation'.target
                /\ newTranslation'.source = trim(call.c.text)
                /\ newTranslation'.to = call.c.to
                /\ newTranslation'.timestamp = now
                /\ recentTranslations'[1] = newTranslation']_vars

\* C18 witness: two calls were issued for "a"; the source text was emptied; the
\* second call's response (an empty result) was applied first, then the first
\* call's response "b": the output and the head of the list come from the older
\* call, the source text is empty.
C18_Witness ==
    /\ lastEvent = "ok"
    /\ calls = 2
    /\ lastSettled = 1
    /\ inflight = {}
    /\ sourceText = <<>>
    /\ translatedText = <<"b">>
    /\ Len(recentTranslations) = 2
    /\ recentTranslations[1] = newTranslation
    /\ recentTranslations[1].source = <<"a">>
    /\ recentTranslations[1].timestamp = 2
    /\ recentTranslations[2].timestamp = 1

\* C19 as stated: once a call has failed, no call is issued before sourceText,
\* sourceLang, targetLang or apiKey changes again; so the step that follows a
\* failure issues no call.
C19_NoCallRightAfterFailure ==
    [][lastEvent = "fail" => calls' = calls]_vars

\* C19 amended: the completion of a call (success or failure) arms no timer and
\* issues no call; a call is issued only by a pending timer that fires; and a
\* timer is armed only by a change of sourceText, sourceLang, targetLang or
\* apiKey. (The change may precede the failure: its timer then fires after it.)
C19_NoRetry ==
    /\ [][lastEvent' \in {"ok", "fail"} =>
            /\ timer' = timer
            /\ calls' = calls
            /\ inflight' \subseteq inflight]_vars
    /\ [][calls' # calls => (lastEvent' = "fire" /\ timer # <<>>)]_vars
    /\ [][(timer' # timer /\ timer' # <<>>) =>
            <<sourceText', sourceLang', targetLang', apiKey'>>
                # <<sourceText, sourceLang, targetLang, apiKey>>]_vars

\* C19 witness: the first call failed (no record was ever created) and a second
\* call has been issued by a timer since.
C19_Witness ==
    /\ lastEvent = "fire"
    /\ calls = 2
    /\ lastSettled = 1
    /\ now = 1
    /\ isTranslating
    /\ Cardinality(inflight) = 1

(***************************************************************************)
(* Liveness.                                                               *)
(***************************************************************************)
\* A change of the text, of a language or of the key.
DependencyChange ==
    <<sourceText', sourceLang', targetLang', apiKey'>>
        # <<sourceText, sourceLang, targetLang, apiKey>>

\* The run has used up the calls of the model: the pending timer cannot fire.
LiveBlocked ==
    /\ timer # <<>>
    /\ calls >= MaxLiveCalls
    /\ trim(timer[1].text) # <<>>
    /\ timer[1].key # <<>>

\* No timer is pending, no call is in flight, isTranslating is false, and for a
\* non-empty source text and key a call has been issued.
Settled ==
    /\ timer = <<>>
    /\ inflight = {}
    /\ ~isTranslating
    /\ (trim(sourceText) # <<>> /\ apiKey # <<>>) => calls > 0

\* C20 as stated: when the last call in flight completes, no timer is pending and
\* the source text and the key are not empty, isTranslating is false and the
\* session is in Success (output not empty, the record at the head of the list)
\* or in Failed (error not empty, output empty).
C20_SuccessOrFailed ==
    [][(/\ lastEvent' \in {"ok", "fail"}
        /\ inflight' = {}
        /\ timer' = <<>>
        /\ trim(sourceText') # <<>>
        /\ apiKey' # <<>>) =>
          /\ ~isTranslating'
          /\ \/ /\ translatedText' # <<>>
                /\ Len(recentTranslations') > 0
                /\ recentTranslations'[1].target = translatedText'
             \/ /\ error' # ""
                /\ translatedText' = <<>>]_vars

\* C20 amended: if from some point on the text, the languages and the key do not
\* change, the session settles: the timer has fired, every call has completed
\* and isTranslating is false. A timer that fires for a non-empty text and key
\* issues a call; the call that completes last leaves isTranslating false and
\* either the result of the call (which may be empty) as the output and its
\* record at the head of the list, or a non-empty error and an empty output.
C20_Settles ==
    /\ (<>[][~DependencyChange]_vars) => <>[](LiveBlocked \/ Settled)
    /\ [][(/\ lastEvent' = "fire"
           /\ trim(sourceText) # <<>>
           /\ apiKey # <<>>) =>
             (calls' = calls + 1 /\ isTranslating')]_vars
    /\ [][(lastEvent' = "ok" /\ inflight' = {}) =>
             /\ ~isTranslating'
             /\ translatedText' = newTranslation'.target
             /\ recentTranslations'[1] = newTranslation']_vars
    /\ [][(lastEvent' = "fail" /\ inflight' = {}) =>
             /\ ~isTranslating'
             /\ error' # ""
             /\ translatedText' = <<>>]_vars

\* C20 witness: the timer fired for "a", the call returned "b", and the session
\* has settled with the output and the record.
C20_Witness ==
    /\ Settled
    /\ lastEvent = "ok"
    /\ sourceText = <<"a">>
    /\ translatedText = <<"b">>
    /\ recentTranslations[1].target = <<"b">>
    /\ calls = 1

(***************************************************************************)
(* Properties of the whole session.                                        *)
(***************************************************************************)
\* C21: in every state isTranslating is true exactly when at least one call is
\* in flight.
C21_TranslatingTracksCalls ==
    isTranslating <=> (inflight # {})

\* C22: in every state sourceText has at most 5000 characters.
C22_SourceTextWithinLimit ==
    Len(sourceText) <= 5000

\* C23: in every state of the mounted component, a session started from the
\* URL of that state starts with the sourceLang and the targetLang of that state.
C23_BookmarkRoundTrip ==
    lastEvent # "load" =>
        /\ startLang(urlSl, getUrlParams.sl, "en") = sourceLang
        /\ startLang(urlTl, getUrlParams.tl, "ja") = targetLang

====
